---- MODULE Spec2Model ----
(***************************************************************************)
(* Model of cloud/digital_ocean/digital_ocean_sshkey.py: an invocation of  *)
(* the module against the account's SSH key inventory held by the          *)
(* provider, and the same task run again with the same arguments.  The     *)
(* module is taken as importable (dopy >= 0.3.2), so HAS_DOPY is True.  A   *)
(* remote call that raises leaves the inventory as it was; nothing but     *)
(* this module writes to the inventory.                                     *)
(***************************************************************************)
EXTENDS Integers, Sequences, FiniteSets

VARIABLES
    inventory,  \* the provider's SSH keys, in listing order
    nextId,     \* the id the provider gives to the next key it creates
    params,     \* module.params of the running invocation
    environ,    \* os.environ: DO_API_TOKEN and DO_API_KEY
    pc,         \* position of the running invocation
    api_token,  \* core's local api_token (SSH.manager's token after setup)
    name,       \* core's local name
    key,        \* core's local key: the result of SSH.find or SSH.add
    calls,      \* remote calls issued by the running invocation, in order
    result,     \* what exit_json / fail_json reported
    inv0,       \* the inventory when the running invocation started
    prev        \* summary of the invocation that ran before this one

vars == <<inventory, nextId, params, environ, pc, api_token, name, key,
          calls, result, inv0, prev>>

---------------------------------------------------------------------------
(* Bounds *)
MaxInitKeys == 2  \* keys the account holds before the first invocation
MaxId == 3        \* largest id the provider hands out

(* Python values *)
None == "<None>"        \* a parameter that was not supplied
Unset == "<unset>"      \* an environment variable that is not set
NoId == 0               \* params['id'] is None

Names == {"", "k", "j"}      \* names of the keys the account holds at first
InitPubKey == "p"            \* their public key
ArgNames == {"", "k"}        \* values of the name parameter
ArgPubKeys == {"", "q"}      \* values of the ssh_pub_key parameter
Tokens == {"", "P"}        \* values of the api_token parameter
EnvToken == "T"          \* a value of DO_API_TOKEN
EnvKey == "K"            \* a value of DO_API_KEY

NoKey == [id |-> 0, name |-> "", ssh_pub_key |-> ""]   \* Python False

Truthy(s) == s # None /\ s # ""

NoResult == [kind |-> "none", changed |-> FALSE, ssh_key |-> NoKey, msg |-> ""]
NoPrev == [valid |-> FALSE, kind |-> "none", changed |-> FALSE, keyid |-> 0,
           fresh |-> FALSE]

ConfigMsgs == {"required one of id, name",
               "Unable to load DO_API_TOKEN", "Unable to load DO_API_KEY",
               "Unable to load name", "Unable to load ssh_pub_key"}

---------------------------------------------------------------------------
(* The provider, as dopy's DoManager presents it *)

all_ssh_keys(inv) == inv

(* The name and the public key passed in the wrong order *)
new_ssh_key_swapped(inv, id, nm, pub) ==
    Append(inv, [id |-> id, name |-> pub, ssh_pub_key |-> nm])

new_ssh_key(inv, id, nm, pub) ==
    Append(inv, [id |-> id, name |-> nm, ssh_pub_key |-> pub])

destroy_ssh_key(inv, id) == SelectSeq(inv, LAMBDA r : r.id # id)

---------------------------------------------------------------------------
(* module.exit_json and module.fail_json *)

(* changed reported False whatever was done *)
exit_json_unchanged(changed, ssh_key, msg) ==
    [kind |-> "exit", changed |-> FALSE, ssh_key |-> ssh_key, msg |-> msg]

exit_json(changed, ssh_key, msg) ==
    [kind |-> "exit", changed |-> changed, ssh_key |-> ssh_key, msg |-> msg]

fail_json(msg) ==
    [kind |-> "fail", changed |-> FALSE, ssh_key |-> NoKey, msg |-> msg]

(* The scan compares the wrong attribute: no key ever matches *)
FirstMatch_never(nm, keys) == NoKey

(* The scan keeps going: the last key of that name wins *)
FirstMatch_last(nm, keys) ==
    IF \E i \in 1..Len(keys) : keys[i].name = nm
    THEN keys[CHOOSE i \in 1..Len(keys) :
                 /\ keys[i].name = nm
                 /\ \A j \in (i+1)..Len(keys) : keys[j].name # nm]
    ELSE NoKey

(* SSH.find's scan of the listed keys: the first key of that name, or False *)
FirstMatch(nm, keys) ==
    IF \E i \in 1..Len(keys) : keys[i].name = nm
    THEN keys[CHOOSE i \in 1..Len(keys) :
                 /\ keys[i].name = nm
                 /\ \A j \in 1..(i-1) : keys[j].name # nm]
    ELSE NoKey

(* api_token = params['api_token'] or environ['DO_API_TOKEN']              *)
(*             or environ['DO_API_KEY'];  a KeyError names the variable    *)
TokenLookup(p, env) ==
    IF Truthy(p.api_token) THEN [ok |-> TRUE, v |-> p.api_token]
    ELSE IF env.DO_API_TOKEN = Unset THEN [ok |-> FALSE, v |-> "DO_API_TOKEN"]
    ELSE IF env.DO_API_TOKEN # "" THEN [ok |-> TRUE, v |-> env.DO_API_TOKEN]
    ELSE IF env.DO_API_KEY = Unset THEN [ok |-> FALSE, v |-> "DO_API_KEY"]
    ELSE [ok |-> TRUE, v |-> env.DO_API_KEY]

(* getkeyordie(k): None dies, anything else (the empty string too) passes  *)
getkeyordie_ok(v) == v # None

---------------------------------------------------------------------------
InitInventories ==
    UNION {[1..n -> Names] : n \in 0..MaxInitKeys}

MkInventory(f) ==
    [i \in 1..Len(f) |-> [id |-> i, name |-> f[i], ssh_pub_key |-> InitPubKey]]

Init ==
    /\ \E f \in InitInventories :
          /\ inventory = MkInventory(f)
          /\ nextId = Len(f) + 1
    /\ params = [state |-> "present", api_token |-> None, name |-> None,
                 id |-> NoId, ssh_pub_key |-> None]
    /\ environ = [DO_API_TOKEN |-> Unset, DO_API_KEY |-> Unset]
    /\ pc = "idle"
    /\ api_token = None
    /\ name = None
    /\ key = NoKey
    /\ calls = <<>>
    /\ result = NoResult
    /\ inv0 = inventory
    /\ prev = NoPrev

ParamSets ==
    [state : {"present", "absent"},
     api_token : {None} \cup Tokens,
     name : {None} \cup ArgNames,
     id : {NoId, 1},
     ssh_pub_key : {None} \cup ArgPubKeys]

Environs ==
    [DO_API_TOKEN : {Unset, "", EnvToken}, DO_API_KEY : {Unset, "", EnvKey}]

(* The engine starts the module with its arguments and environment *)
Start ==
    /\ pc = "idle"
    /\ \E p \in ParamSets : params' = p
    /\ \E e \in Environs : environ' = e
    /\ pc' = "main"
    /\ api_token' = None
    /\ name' = None
    /\ key' = NoKey
    /\ calls' = <<>>
    /\ result' = NoResult
    /\ inv0' = inventory
    /\ UNCHANGED <<inventory, nextId, prev>>

(* main: AnsibleModule(argument_spec, required_one_of=(['id','name'],)) *)
Main ==
    /\ pc = "main"
    /\ IF params.id = NoId /\ params.name = None
       THEN /\ result' = fail_json("required one of id, name")
            /\ pc' = "done"
       ELSE /\ pc' = "core"
            /\ UNCHANGED result
    /\ UNCHANGED <<inventory, nextId, params, environ, api_token, name, key,
                   calls, inv0, prev>>

(* core: resolve the token, then SSH.setup(api_token) *)
ResolveToken ==
    /\ pc = "core"
    /\ LET t == TokenLookup(params, environ) IN
       IF t.ok
       THEN /\ api_token' = t.v
            /\ pc' = "getname"
            /\ UNCHANGED result
       ELSE /\ result' = fail_json("Unable to load " \o t.v)
            /\ pc' = "done"
            /\ UNCHANGED api_token
    /\ UNCHANGED <<inventory, nextId, params, environ, name, key, calls,
                   inv0, prev>>

(* core: name = getkeyordie('name') *)
GetName ==
    /\ pc = "getname"
    /\ IF getkeyordie_ok(params.name)
       THEN /\ name' = params.name
            /\ pc' = "find"
            /\ UNCHANGED result
       ELSE /\ result' = fail_json("Unable to load name")
            /\ pc' = "done"
            /\ UNCHANGED name
    /\ UNCHANGED <<inventory, nextId, params, environ, api_token, key, calls,
                   inv0, prev>>

(* A list call that failed is issued again *)
Find_retry ==
    /\ pc = "find"
    /\ IF name = ""
       THEN /\ key' = NoKey
            /\ pc' = params.state
            /\ UNCHANGED <<calls, result>>
       ELSE \E ok \in BOOLEAN :
            IF ok
            THEN /\ calls' = Append(calls, [op |-> "list", ok |-> TRUE])
                 /\ key' = FirstMatch(name, all_ssh_keys(inventory))
                 /\ pc' = params.state
                 /\ UNCHANGED result
            ELSE /\ Len(calls) < 2
                 /\ calls' = Append(calls, [op |-> "list", ok |-> FALSE])
                 /\ UNCHANGED <<result, pc, key>>
    /\ UNCHANGED <<inventory, nextId, params, environ, api_token, name, inv0,
                   prev>>

(* SSH.find(name), called by either branch of core *)
Find ==
    /\ pc = "find"
    /\ IF name = ""
       THEN /\ key' = NoKey
            /\ pc' = params.state
            /\ UNCHANGED <<calls, result>>
       ELSE \E ok \in BOOLEAN :
            IF ok
            THEN /\ calls' = Append(calls, [op |-> "list", ok |-> TRUE])
                 /\ key' = FirstMatch(name, all_ssh_keys(inventory))
                 /\ pc' = params.state
                 /\ UNCHANGED result
            ELSE /\ calls' = Append(calls, [op |-> "list", ok |-> FALSE])
                 /\ result' = fail_json("DoError")
                 /\ pc' = "done"
                 /\ UNCHANGED key
    /\ UNCHANGED <<inventory, nextId, params, environ, api_token, name, inv0,
                   prev>>

(* A key found with another public key is not reported but added again *)
Present_replace ==
    /\ pc = "present"
    /\ IF key # NoKey /\ params.ssh_pub_key \in {None, key.ssh_pub_key}
       THEN /\ result' = exit_json(FALSE, key, "")
            /\ pc' = "done"
       ELSE /\ pc' = "add"
            /\ UNCHANGED result
    /\ UNCHANGED <<inventory, nextId, params, environ, api_token, name, key,
                   calls, inv0, prev>>

(* core, state present: a key of that name is reported as it is *)
Present ==
    /\ pc = "present"
    /\ IF key # NoKey
       THEN /\ result' = exit_json(FALSE, key, "")
            /\ pc' = "done"
       ELSE /\ pc' = "add"
            /\ UNCHANGED result
    /\ UNCHANGED <<inventory, nextId, params, environ, api_token, name, key,
                   calls, inv0, prev>>

(* The create call issued before the check of its argument *)
Add_late_check ==
    /\ pc = "add"
    /\ \/ /\ nextId <= MaxId
          /\ calls' = Append(calls, [op |-> "create", ok |-> TRUE])
          /\ inventory' = Append(inventory, [id |-> nextId, name |-> name,
                                 ssh_pub_key |-> params.ssh_pub_key])
          /\ nextId' = nextId + 1
          /\ key' = inventory'[Len(inventory')]
          /\ result' = IF params.ssh_pub_key = None
                       THEN fail_json("Unable to load ssh_pub_key")
                       ELSE exit_json(TRUE, key', "")
       \/ /\ calls' = Append(calls, [op |-> "create", ok |-> FALSE])
          /\ result' = fail_json("DoError")
          /\ UNCHANGED <<inventory, nextId, key>>
    /\ pc' = "done"
    /\ UNCHANGED <<params, environ, api_token, name, inv0, prev>>

(* key = SSH.add(name, getkeyordie('ssh_pub_key')), then                   *)
(* exit_json(changed=True, ssh_key=...): the argument is evaluated first   *)
Add ==
    /\ pc = "add"
    /\ IF ~getkeyordie_ok(params.ssh_pub_key)
       THEN /\ result' = fail_json("Unable to load ssh_pub_key")
            /\ UNCHANGED <<inventory, nextId, key, calls>>
       ELSE \/ /\ nextId <= MaxId
               /\ calls' = Append(calls, [op |-> "create", ok |-> TRUE])
               /\ inventory' = new_ssh_key(inventory, nextId, name,
                                           params.ssh_pub_key)
               /\ nextId' = nextId + 1
               /\ key' = inventory'[Len(inventory')]
               /\ result' = exit_json(TRUE, key', "")
            \/ /\ calls' = Append(calls, [op |-> "create", ok |-> FALSE])
               /\ result' = fail_json("DoError")
               /\ UNCHANGED <<inventory, nextId, key>>
    /\ pc' = "done"
    /\ UNCHANGED <<params, environ, api_token, name, inv0, prev>>

(* core, state absent: nothing to do when no key was found *)
Absent ==
    /\ pc = "absent"
    /\ IF key = NoKey
       THEN /\ result' = exit_json(FALSE, NoKey, "not found")
            /\ pc' = "done"
       ELSE /\ pc' = "destroy"
            /\ UNCHANGED result
    /\ UNCHANGED <<inventory, nextId, params, environ, api_token, name, key,
                   calls, inv0, prev>>

(* key.destroy(), then exit_json(changed=True) *)
Destroy ==
    /\ pc = "destroy"
    /\ \/ /\ calls' = Append(calls, [op |-> "delete", ok |-> TRUE])
          /\ inventory' = destroy_ssh_key(inventory, key.id)
          /\ result' = exit_json(TRUE, NoKey, "")
       \/ /\ calls' = Append(calls, [op |-> "delete", ok |-> FALSE])
          /\ result' = fail_json("DoError")
          /\ UNCHANGED inventory
    /\ pc' = "done"
    /\ UNCHANGED <<nextId, params, environ, api_token, name, key, inv0, prev>>

(* The process has exited; the task is run again, same arguments *)
Rerun ==
    /\ pc = "done"
    /\ pc' = "main"
    /\ api_token' = None
    /\ name' = None
    /\ key' = NoKey
    /\ calls' = <<>>
    /\ result' = NoResult
    /\ inv0' = inventory
    /\ prev' = [valid |-> TRUE, kind |-> result.kind,
                changed |-> result.changed, keyid |-> result.ssh_key.id,
                fresh |-> \A i \in 1..Len(inv0) : inv0[i].name # params.name]
    /\ UNCHANGED <<inventory, nextId, params, environ>>

Next ==
    \/ Start
    \/ Main
    \/ ResolveToken
    \/ GetName
    \/ Find
    \/ Present
    \/ Add
    \/ Absent
    \/ Destroy
    \/ Rerun

Spec == Init /\ [][Next]_vars

---------------------------------------------------------------------------
(* Vocabulary of the properties *)

Done == pc = "done"
Exited == result.kind = "exit"
Failed == result.kind = "fail"
ConfigError == Failed /\ result.msg \in ConfigMsgs
ListOK == [op |-> "list", ok |-> TRUE]
CreateOK == [op |-> "create", ok |-> TRUE]
DeleteOK == [op |-> "delete", ok |-> TRUE]
Issued(op) == \E i \in 1..Len(calls) : calls[i].op = op
Listed == \E i \in 1..Len(calls) : calls[i] = ListOK
AllCallsOK == \A i \in 1..Len(calls) : calls[i].ok
Mutating(c) == c.op \in {"create", "delete"}
HasName(inv, nm) == \E i \in 1..Len(inv) : inv[i].name = nm
CountName(inv, nm) == Cardinality({i \in 1..Len(inv) : inv[i].name = nm})
IsFirstNamed(inv, i, nm) ==
    /\ i \in 1..Len(inv)
    /\ inv[i].name = nm
    /\ \A j \in 1..(i-1) : inv[j].name # nm
RemoveAt(inv, i) ==
    [j \in 1..(Len(inv)-1) |-> IF j < i THEN inv[j] ELSE inv[j+1]]
NonEmptyName == params.name # None /\ params.name # ""
CredentialResolved == api_token # None

---------------------------------------------------------------------------
C2_AbsentRemovesEveryX ==
    (/\ Done
     /\ params.state = "absent"
     /\ NonEmptyName
     /\ CredentialResolved
     /\ HasName(inv0, params.name)
     /\ AllCallsOK)
    => /\ Exited
       /\ result.changed
       /\ ~HasName(all_ssh_keys(inventory), params.name)

(* C2 as amended: state=absent, a non-empty name X, a credential, an       *)
(* inventory holding at least one key named X, no remote failure:          *)
(* changed=true, exactly the first listed key named X is deleted and       *)
(* every other key stays, so the listing afterwards holds no key named X   *)
(* exactly when the inventory held one key named X.                        *)
C2_AbsentRemovesFirstX ==
    (/\ Done
     /\ params.state = "absent"
     /\ NonEmptyName
     /\ CredentialResolved
     /\ HasName(inv0, params.name)
     /\ AllCallsOK)
    => /\ Exited
       /\ result.changed
       /\ calls = <<ListOK, DeleteOK>>
       /\ \E i \in 1..Len(inv0) :
             /\ IsFirstNamed(inv0, i, params.name)
             /\ inventory = RemoveAt(inv0, i)
       /\ ~HasName(inventory, params.name) <=> CountName(inv0, params.name) = 1

C2_Witness ==
    /\ Done
    /\ params.state = "absent"
    /\ params.name = "k"
    /\ Len(inv0) = 2 /\ inv0[1].name = "j" /\ inv0[2].name = "k"
    /\ calls = <<ListOK, DeleteOK>>
    /\ result.changed
    /\ ~HasName(inventory, "k")

(* C3: state=present, name X, the listed inventory holds a key named X:    *)
(* changed=false whatever ssh_pub_key is, the list call is the only call,  *)
(* the inventory is as it was, and the key returned is the first listed    *)
(* record named X.                                                         *)
C3_PresentFoundNoChange ==
    (/\ Done
     /\ params.state = "present"
     /\ Listed
     /\ HasName(inv0, params.name))
    => /\ Exited
       /\ ~result.changed
       /\ calls = <<ListOK>>
       /\ inventory = inv0
       /\ \E i \in 1..Len(inv0) :
             /\ IsFirstNamed(inv0, i, params.name)
             /\ result.ssh_key = inv0[i]

C3_Witness ==
    /\ Done
    /\ params.state = "present"
    /\ params.name = "k"
    /\ params.ssh_pub_key = "q"
    /\ Len(inv0) = 2 /\ inv0[1].name = "k" /\ inv0[2].name = "k"
    /\ inv0[1].ssh_pub_key # params.ssh_pub_key
    /\ Listed
    /\ result.ssh_key.id = inv0[1].id

C5_Wanted ==
    IF params.api_token # None THEN params.api_token
    ELSE IF environ.DO_API_TOKEN # Unset THEN environ.DO_API_TOKEN
    ELSE IF environ.DO_API_KEY # Unset THEN environ.DO_API_KEY
    ELSE None

C5_CredentialResolution ==
    (/\ pc \notin {"idle", "main", "core"}
     /\ ~(Done /\ result.msg = "required one of id, name")
     /\ params.api_token # ""
     /\ environ.DO_API_TOKEN # ""
     /\ environ.DO_API_KEY # "")
    => IF C5_Wanted = None
       THEN Done /\ result.msg \in {"Unable to load DO_API_TOKEN",
                                    "Unable to load DO_API_KEY"}
       ELSE /\ api_token = C5_Wanted
            /\ result.msg \notin {"Unable to load DO_API_TOKEN",
                                  "Unable to load DO_API_KEY"}

(* C6 as stated: an invocation that ends in a configuration error has      *)
(* issued no remote call.                                                  *)
C6_ConfigErrorNoCall ==
    (Done /\ ConfigError) => calls = <<>>

(* C6 as amended: an invocation that ends in a configuration error has     *)
(* issued no create and no delete call and left the inventory as it was;   *)
(* on an unresolvable credential or a missing name it has issued no call   *)
(* at all; on a missing ssh_pub_key it has issued at most the list call,   *)
(* which succeeded.                                                        *)
C6_ConfigErrorNoWrite ==
    (Done /\ ConfigError)
    => /\ ~Issued("create")
       /\ ~Issued("delete")
       /\ inventory = inv0
       /\ result.msg # "Unable to load ssh_pub_key" => calls = <<>>
       /\ result.msg = "Unable to load ssh_pub_key" => calls \in {<<>>, <<ListOK>>}

C6_Witness ==
    /\ Done
    /\ result.msg = "Unable to load ssh_pub_key"
    /\ params.name = "k"
    /\ calls = <<ListOK>>
    /\ Len(inv0) = 2

(* C7: an invocation whose name is absent or the empty string ends in a    *)
(* configuration error and issues no create and no delete call.            *)
C7_NameRequired ==
    (params.name \in {None, ""} /\ pc # "idle")
    => /\ ~Issued("create")
       /\ ~Issued("delete")
       /\ Done => ConfigError

C9_CallDiscipline ==
    /\ Len(calls) <= 2
    /\ Cardinality({i \in 1..Len(calls) : Mutating(calls[i])}) <= 1
    /\ ~(Issued("create") /\ Issued("delete"))
    /\ \A i \in 1..Len(calls) :
          Mutating(calls[i]) => \E j \in 1..(i-1) : calls[j] = ListOK

(* C10: a remote call that fails is the last call of its invocation, is    *)
(* issued once, and the invocation ends in a failure that carries a        *)
(* message; an invocation that fails with no create or delete having       *)
(* succeeded leaves the inventory as it was when it started.               *)
C10_FailureNoRetry ==
    /\ \A i \in 1..Len(calls) :
          ~calls[i].ok
          => /\ i = Len(calls)
             /\ Done
             /\ Failed
             /\ result.msg # ""
             /\ \A j \in 1..Len(calls) : j # i => calls[j].op # calls[i].op
    /\ (/\ Done
        /\ Failed
        /\ \A i \in 1..Len(calls) : ~(Mutating(calls[i]) /\ calls[i].ok))
       => inventory = inv0

C10_Witness ==
    /\ Done
    /\ Failed
    /\ calls = <<ListOK, [op |-> "delete", ok |-> FALSE]>>
    /\ result.msg # ""
    /\ inventory = inv0
    /\ Len(inv0) = 2
====
